---- MODULE Spec2Model ----
(***************************************************************************)
(* One run of app.py: the dashboard script that loads                      *)
(* AI_Job_Market_Trends.csv, filters it by the three sidebar selections,   *)
(* computes the aggregates behind the six charts and offers the filtered   *)
(* table for download.                                                     *)
(*                                                                         *)
(* Encoding of values                                                      *)
(*   text cell (Job Title, Industry, Location): a string, NaN when missing *)
(*   Salary cell: <<n>>, or <<>> when missing                              *)
(*   Skills cell: a sequence of one-character strings, <<>> when missing   *)
(*                (read_csv never yields an empty string: it yields NaN)   *)
(*   Date cell: <<year, month, day>> as written in the file, <<0,0,0>> for *)
(*              text that is no date at all, <<>> when missing             *)
(*   a mean: [sum, n] standing for sum/n, n = 0 being NaN                  *)
(***************************************************************************)
EXTENDS Integers, Sequences, FiniteSets, TLC

MaxRows == 2

TopN == 10

NaN == "NaN"

NaStrings == {"", "NA", "NaN", "null"}

VARIABLES
    pc,                 \* the section of the script that runs next
    file_exists,        \* os.path.exists(file_name)
    csv_file,           \* the rows of the file on disk
    has_date,           \* the file has a Date column
    df,                 \* the loaded table
    selected_job, selected_industry, selected_location,
    filtered_df,
    avg_salary_by_job,
    fig2,               \* the (Industry, Salary) data handed to px.box
    loc_count,
    top_skills,
    fig5,               \* the Salary data handed to sns.histplot
    df_time,
    csv,                \* the download artifact
    out                 \* the elements written to the page, in order

vars == <<pc, file_exists, csv_file, has_date, df, selected_job,
          selected_industry, selected_location, filtered_df,
          avg_salary_by_job, fig2, loc_count, top_skills, fig5, df_time,
          csv, out>>

----------------------------------------------------------------------------
(* Generic helpers *)

Range(s) == {s[i] : i \in DOMAIN s}

Perms(S) ==
    {s \in [1..Cardinality(S) -> S] : \A i, j \in DOMAIN s : s[i] = s[j] => i = j}

\* A stable sort: the elements of s, x before y whenever <<x, y>> is in the
\* relation before, and in their order in s when neither is before the other.
StableSort(s, before) ==
    LET rank(i) == 1 + Cardinality({j \in DOMAIN s \ {i} :
                        \/ <<s[j], s[i]>> \in before
                        \/ (<<s[i], s[j]>> \notin before /\ j < i)})
    IN  [k \in DOMAIN s |-> s[CHOOSE i \in DOMAIN s : rank(i) = k]]

Take(s, n) == IF Len(s) <= n THEN s ELSE SubSeq(s, 1, n)

RECURSIVE SumSeq(_)
SumSeq(s) == IF s = <<>> THEN 0 ELSE Head(s) + SumSeq(Tail(s))

----------------------------------------------------------------------------
(* pd.read_csv *)

ReadField(text) == IF text \in NaStrings THEN NaN ELSE text

ReadCsv(file) ==
    [i \in DOMAIN file |->
        [idx      |-> i - 1,
         job      |-> ReadField(file[i].job),
         industry |-> ReadField(file[i].industry),
         location |-> ReadField(file[i].location),
         salary   |-> file[i].salary,
         skills   |-> file[i].skills,
         date     |-> file[i].date]]

Unique(rows, col) == {rows[i][col] : i \in DOMAIN rows}

----------------------------------------------------------------------------
(* The filter: boolean-mask indexing with Series.isin *)

\* A faulty isin: a missing cell equals nothing, itself included
IsInNaNNeverEqual(v, values) == v # NaN /\ v \in values

IsIn(v, values) == v \in values

\* A faulty selection: the mask is laid on the rows one place off
MaskSelectShifted(rows, col, values) ==
    LET kept == {i \in DOMAIN rows :
                    i < Len(rows) /\ IsIn(rows[i + 1][col], values)}
        nth(k) == CHOOSE i \in kept : Cardinality({j \in kept : j < i}) = k - 1
    IN  [k \in 1..Cardinality(kept) |-> rows[nth(k)]]

\* frame[frame[col].isin(values)]: the rows whose cell is one of the values,
\* in their order
MaskSelect(rows, col, values) ==
    SelectSeq(rows, LAMBDA r : IsIn(r[col], values))

\* A faulty filter step: the mask is applied even when nothing is selected
ApplyAlways(rows, col, selected) == MaskSelect(rows, col, selected)

ApplyIfSelected(rows, col, selected) ==
    IF selected # {} THEN MaskSelect(rows, col, selected) ELSE rows

FilterView(table, sjob, sindustry, slocation) ==
    LET f1 == ApplyIfSelected(table, "job", sjob)
        f2 == ApplyIfSelected(f1, "industry", sindustry)
    IN  ApplyIfSelected(f2, "location", slocation)

----------------------------------------------------------------------------
(* Means *)

\* Series.mean(): missing values are skipped; NaN when nothing is left
MeanSalary(rows) ==
    LET present == SelectSeq(rows, LAMBDA r : r.salary # <<>>)
    IN  [sum |-> SumSeq([i \in DOMAIN present |-> present[i].salary[1]]),
         n   |-> Len(present)]

MeanGreater(a, b) == a.n > 0 /\ b.n > 0 /\ a.sum * b.n > b.sum * a.n

\* A faulty order: ascending=True
MeanAscending(a, b) ==
    \/ a.mean.n > 0 /\ b.mean.n = 0
    \/ MeanGreater(b.mean, a.mean)

\* sort_values(ascending=False): larger first, NaN last
MeanDescending(a, b) ==
    \/ a.mean.n > 0 /\ b.mean.n = 0
    \/ MeanGreater(a.mean, b.mean)

\* groupby('Job Title')['Salary'].mean(): one group per key, missing keys
\* dropped (dropna=True)
GroupMean(rows, col) ==
    {[key  |-> k,
      mean |-> MeanSalary(SelectSeq(rows, LAMBDA r : r[col] = k))]
        : k \in Unique(rows, col) \ {NaN}}

----------------------------------------------------------------------------
(* Series.value_counts(): one entry per value, missing values dropped *)

ValueCounts(rows, col) ==
    {[Location |-> k,
      Count    |-> Len(SelectSeq(rows, LAMBDA r : r[col] = k))]
        : k \in Unique(rows, col) \ {NaN}}

CountDescending(a, b) == a.Count > b.Count

----------------------------------------------------------------------------
(* The skills: str.split(','), str.strip(), Counter, most_common *)

Whitespace == {" "}

RECURSIVE Split(_)
Split(s) ==
    IF \A i \in DOMAIN s : s[i] # ","
    THEN <<s>>
    ELSE LET k == CHOOSE i \in DOMAIN s :
                     s[i] = "," /\ \A j \in 1..(i - 1) : s[j] # ","
         IN  <<SubSeq(s, 1, k - 1)>> \o Split(SubSeq(s, k + 1, Len(s)))

Strip(s) ==
    LET inked == {i \in DOMAIN s : s[i] \notin Whitespace}
    IN  IF inked = {} THEN <<>>
        ELSE SubSeq(s, CHOOSE i \in inked : \A j \in inked : i <= j,
                       CHOOSE i \in inked : \A j \in inked : i >= j)

RECURSIVE Flatten(_)
Flatten(ss) == IF ss = <<>> THEN <<>> ELSE Head(ss) \o Flatten(Tail(ss))

\* filtered_df['Skills'].dropna().apply(lambda x: [s.strip() for s in x.split(',')])
SkillsSeries(rows) ==
    LET present == SelectSeq(rows, LAMBDA r : r.skills # <<>>)
    IN  [i \in DOMAIN present |->
            LET pieces == Split(present[i].skills)
            IN  [j \in DOMAIN pieces |-> Strip(pieces[j])]]

AllSkills(rows) == Flatten(SkillsSeries(rows))

\* Counter(all_skills): the distinct tokens in first-seen order, each with
\* the number of its occurrences
Counter(stream) ==
    LET firsts == {i \in DOMAIN stream : \A j \in 1..(i - 1) : stream[j] # stream[i]}
        nth(k) == CHOOSE i \in firsts : Cardinality({j \in firsts : j < i}) = k - 1
    IN  [k \in 1..Cardinality(firsts) |->
            [Skill |-> stream[nth(k)],
             Count |-> Cardinality({i \in DOMAIN stream : stream[i] = stream[nth(k)]})]]

\* A faulty ranking: the n least frequent tokens
LeastCommon(counter, n) ==
    Take(StableSort(counter, {p \in Range(counter) \X Range(counter) :
                                p[1].Count < p[2].Count}), n)

\* Counter.most_common(n): heapq.nlargest, equal to a stable descending sort
\* cut after n
MostCommon(counter, n) ==
    Take(StableSort(counter, {p \in Range(counter) \X Range(counter) :
                                CountDescending(p[1], p[2])}), n)

----------------------------------------------------------------------------
(* The dates: pd.to_datetime(errors='coerce'), pd.Grouper(freq='M') *)

NaT == <<>>

IsLeap(y) == (y % 4 = 0 /\ y % 100 # 0) \/ y % 400 = 0

DaysInMonth(y, m) ==
    IF m = 2 THEN (IF IsLeap(y) THEN 29 ELSE 28)
    ELSE IF m \in {4, 6, 9, 11} THEN 30 ELSE 31

ValidDate(d) ==
    /\ Len(d) = 3
    /\ d[1] >= 1
    /\ d[2] \in 1..12
    /\ d[3] \in 1..DaysInMonth(d[1], d[2])

\* A faulty parse: text that is no date becomes the epoch instead of NaT
ToDatetimeEpoch(d) == IF ValidDate(d) THEN d ELSE <<1970, 1, 1>>

ToDatetime(d) == IF ValidDate(d) THEN d ELSE NaT

MonthIndex(d) == d[1] * 12 + d[2] - 1

\* the label of a monthly bin: the last day of the month
MonthEnd(k) ==
    LET y == k \div 12
        m == (k % 12) + 1
    IN  <<y, m, DaysInMonth(y, m)>>

\* df_time after lines 109-111
DatedRows(rows) ==
    LET parsed == [i \in DOMAIN rows |-> [rows[i] EXCEPT !.date = ToDatetime(@)]]
    IN  SelectSeq(parsed, LAMBDA r : r.date # NaT)

\* A faulty trend: a plain group-by of the months that occur, without the
\* bins of the months between them
MonthlyTrendOccupiedOnly(rows) ==
    LET dated  == DatedRows(rows)
        months == {MonthIndex(dated[i].date) : i \in DOMAIN dated}
        nth(k) == CHOOSE x \in months : Cardinality({y \in months : y < x}) = k - 1
    IN  [k \in 1..Cardinality(months) |->
            [Date   |-> MonthEnd(nth(k)),
             Salary |-> MeanSalary(SelectSeq(dated,
                            LAMBDA r : MonthIndex(r.date) = nth(k)))]]

\* groupby(pd.Grouper(key='Date', freq='M'))['Salary'].mean().reset_index():
\* one bin per month from the first dated month to the last
MonthlyTrend(rows) ==
    LET dated  == DatedRows(rows)
        months == {MonthIndex(dated[i].date) : i \in DOMAIN dated}
    IN  IF months = {} THEN <<>>
        ELSE LET lo == CHOOSE x \in months : \A y \in months : x <= y
                 hi == CHOOSE x \in months : \A y \in months : x >= y
             IN  [k \in 1..(hi - lo + 1) |->
                    [Date   |-> MonthEnd(lo + k - 1),
                     Salary |-> MeanSalary(SelectSeq(dated,
                                    LAMBDA r : MonthIndex(r.date) = lo + k - 1))]]

----------------------------------------------------------------------------
(* DataFrame.to_csv(index=False) *)

Columns(hasdate) ==
    <<"Job Title", "Industry", "Location", "Salary", "Skills">>
        \o (IF hasdate THEN <<"Date">> ELSE <<>>)

WriteField(v) == IF v = NaN THEN "" ELSE v

\* A faulty export: header=False
ToCsvNoHeader(rows, hasdate) ==
    [header |-> <<>>,
     lines  |-> [i \in DOMAIN rows |->
                    <<WriteField(rows[i].job), WriteField(rows[i].industry),
                      WriteField(rows[i].location), rows[i].salary,
                      rows[i].skills>>
                        \o (IF hasdate THEN <<rows[i].date>> ELSE <<>>)]]

ToCsv(rows, hasdate) ==
    [header |-> Columns(hasdate),
     lines  |-> [i \in DOMAIN rows |->
                    <<WriteField(rows[i].job), WriteField(rows[i].industry),
                      WriteField(rows[i].location), rows[i].salary,
                      rows[i].skills>>
                        \o (IF hasdate THEN <<rows[i].date>> ELSE <<>>)]]

\* A faulty stop: the script goes on
StopIgnored(next) == next

\* st.stop(): the script ends here, whatever section would have come next
Stop(next) == "stopped"

----------------------------------------------------------------------------
(* The files the run is tried on *)

Row(j, i, l, s, k, d) ==
    [job |-> j, industry |-> i, location |-> l, salary |-> s, skills |-> k,
     date |-> d]

SkillTexts ==
    { <<>>,
      <<"p", ",", " ", "s">>,
      <<"s">>,
      <<" ", ",", "p", " ">>,
      <<"a", ",", "b", ",", "c", ",", "d", ",", "e", ",", "f", ",", "p">>,
      <<" ", "g", ",", "h", ",", "i", ",", "j", ",", "k", ",", "s", ",", " ", "s">> }

DateTexts ==
    { <<2023, 12, 31>>, <<2024, 1, 15>>, <<2024, 3, 1>>, <<2024, 2, 30>>,
      <<0, 0, 0>> }

FilterRows ==
    {Row(j, i, l, <<1>>, <<"p">>, <<>>) :
        j \in {"DS", ""}, i \in {"Tech", "Fin"}, l \in {"NY", ""}}

SkillRows ==
    {Row("DS", "Tech", l, <<1>>, k, <<>>) : l \in {"NY", "SF"}, k \in SkillTexts}

SalaryRows ==
    {Row(j, "Tech", "NY", s, <<"p">>, <<>>) :
        j \in {"DS", "AN", ""}, s \in {<<1>>, <<3>>, <<>>}}

DateRows ==
    {Row("DS", "Tech", o[1], o[2], <<"p">>, d) :
        o \in {<<"NY", <<1>>>>, <<"SF", <<3>>>>}, d \in DateTexts}

Files ==
    {[rows |-> FilterRows, dated |-> FALSE],
     [rows |-> SkillRows,  dated |-> FALSE],
     [rows |-> SalaryRows, dated |-> FALSE],
     [rows |-> DateRows,   dated |-> TRUE]}

Tables(rows) == UNION {[1..n -> rows] : n \in 0..MaxRows}

----------------------------------------------------------------------------
(* The run *)

Init ==
    /\ pc = "start"
    /\ file_exists \in BOOLEAN
    /\ IF file_exists
       THEN \E f \in Files : has_date = f.dated /\ csv_file \in Tables(f.rows)
       ELSE has_date = FALSE /\ csv_file = <<>>
    /\ df = <<>>
    /\ selected_job = {}
    /\ selected_industry = {}
    /\ selected_location = {}
    /\ filtered_df = <<>>
    /\ avg_salary_by_job = <<>>
    /\ fig2 = <<>>
    /\ loc_count = <<>>
    /\ top_skills = <<>>
    /\ fig5 = <<>>
    /\ df_time = <<>>
    /\ csv = <<>>
    /\ out = <<>>

\* lines 27-36, the file being absent
MissingFile ==
    /\ pc = "start"
    /\ ~file_exists
    /\ out' = out \o <<"title", "markdown", "error">>
    /\ pc' = Stop("info")
    /\ UNCHANGED <<file_exists, csv_file, has_date, df, selected_job,
                   selected_industry, selected_location, filtered_df,
                   avg_salary_by_job, fig2, loc_count, top_skills, fig5,
                   df_time, csv>>

\* lines 27-39, the file being present
LoadCsv ==
    /\ pc = "start"
    /\ file_exists
    /\ df' = ReadCsv(csv_file)
    /\ out' = out \o <<"title", "markdown", "success">>
    /\ pc' = "info"
    /\ UNCHANGED <<file_exists, csv_file, has_date, selected_job,
                   selected_industry, selected_location, filtered_df,
                   avg_salary_by_job, fig2, loc_count, top_skills, fig5,
                   df_time, csv>>

\* lines 41-50
BasicInfo ==
    /\ pc = "info"
    /\ out' = out \o <<"header", "dataframe", "dataframe", "dataframe">>
    /\ pc' = "sidebar"
    /\ UNCHANGED <<file_exists, csv_file, has_date, df, selected_job,
                   selected_industry, selected_location, filtered_df,
                   avg_salary_by_job, fig2, loc_count, top_skills, fig5,
                   df_time, csv>>

\* lines 52-67: the three multiselects return what the user has selected
\* among the values of their columns, and the table is filtered
Sidebar ==
    /\ pc = "sidebar"
    /\ \E sj \in SUBSET Unique(df, "job"),
          si \in SUBSET Unique(df, "industry"),
          sl \in SUBSET Unique(df, "location") :
            /\ selected_job' = sj
            /\ selected_industry' = si
            /\ selected_location' = sl
            /\ filtered_df' = FilterView(df, sj, si, sl)
    /\ out' = out \o <<"count", "dataframe">>
    /\ pc' = "avg"
    /\ UNCHANGED <<file_exists, csv_file, has_date, df, avg_salary_by_job,
                   fig2, loc_count, top_skills, fig5, df_time, csv>>

\* lines 69-74; the order in which sort_values meets groups of equal mean
\* is the library's choice
AvgSalaryByJob ==
    /\ pc = "avg"
    /\ \E order \in Perms(GroupMean(filtered_df, "job")) :
            avg_salary_by_job' =
                StableSort(order, {p \in Range(order) \X Range(order) :
                                        MeanDescending(p[1], p[2])})
    /\ out' = out \o <<"header", "chart">>
    /\ pc' = "box"
    /\ UNCHANGED <<file_exists, csv_file, has_date, df, selected_job,
                   selected_industry, selected_location, filtered_df, fig2,
                   loc_count, top_skills, fig5, df_time, csv>>

\* lines 76-80
IndustryBox ==
    /\ pc = "box"
    /\ fig2' = [i \in DOMAIN filtered_df |->
                    [Industry |-> filtered_df[i].industry,
                     Salary   |-> filtered_df[i].salary]]
    /\ out' = out \o <<"header", "chart">>
    /\ pc' = "loc"
    /\ UNCHANGED <<file_exists, csv_file, has_date, df, selected_job,
                   selected_industry, selected_location, filtered_df,
                   avg_salary_by_job, loc_count, top_skills, fig5, df_time,
                   csv>>

\* lines 82-87; value_counts sorts by descending count, the order among
\* equal counts being the library's choice
LocationCount ==
    /\ pc = "loc"
    /\ \E order \in Perms(ValueCounts(filtered_df, "location")) :
            loc_count' =
                StableSort(order, {p \in Range(order) \X Range(order) :
                                        CountDescending(p[1], p[2])})
    /\ out' = out \o <<"header", "chart">>
    /\ pc' = "skills"
    /\ UNCHANGED <<file_exists, csv_file, has_date, df, selected_job,
                   selected_industry, selected_location, filtered_df,
                   avg_salary_by_job, fig2, top_skills, fig5, df_time, csv>>

\* lines 89-97
TopSkills ==
    /\ pc = "skills"
    /\ top_skills' = MostCommon(Counter(AllSkills(filtered_df)), TopN)
    /\ out' = out \o <<"header", "chart">>
    /\ pc' = "hist"
    /\ UNCHANGED <<file_exists, csv_file, has_date, df, selected_job,
                   selected_industry, selected_location, filtered_df,
                   avg_salary_by_job, fig2, loc_count, fig5, df_time, csv>>

\* lines 99-104
SalaryHistogram ==
    /\ pc = "hist"
    /\ fig5' = [i \in DOMAIN filtered_df |-> filtered_df[i].salary]
    /\ out' = out \o <<"header", "pyplot">>
    /\ pc' = "trend"
    /\ UNCHANGED <<file_exists, csv_file, has_date, df, selected_job,
                   selected_industry, selected_location, filtered_df,
                   avg_salary_by_job, fig2, loc_count, top_skills, df_time,
                   csv>>

\* lines 106-115
TimeTrend ==
    /\ pc = "trend"
    /\ IF has_date
       THEN /\ df_time' = MonthlyTrend(filtered_df)
            /\ out' = out \o <<"header", "chart">>
       ELSE UNCHANGED <<df_time, out>>
    /\ pc' = "download"
    /\ UNCHANGED <<file_exists, csv_file, has_date, df, selected_job,
                   selected_industry, selected_location, filtered_df,
                   avg_salary_by_job, fig2, loc_count, top_skills, fig5, csv>>

\* lines 117-120
Download ==
    /\ pc = "download"
    /\ csv' = ToCsv(filtered_df, has_date)
    /\ out' = out \o <<"header", "download_button">>
    /\ pc' = "done"
    /\ UNCHANGED <<file_exists, csv_file, has_date, df, selected_job,
                   selected_industry, selected_location, filtered_df,
                   avg_salary_by_job, fig2, loc_count, top_skills, fig5,
                   df_time>>

Next ==
    \/ MissingFile
    \/ LoadCsv
    \/ BasicInfo
    \/ Sidebar
    \/ AvgSalaryByJob
    \/ IndustryBox
    \/ LocationCount
    \/ TopSkills
    \/ SalaryHistogram
    \/ TimeTrend
    \/ Download

Spec == Init /\ [][Next]_vars

----------------------------------------------------------------------------
(* Vocabulary of the properties *)

Loaded       == pc \notin {"start", "stopped"}
Filtered     == pc \in {"avg", "box", "loc", "skills", "hist", "trend", "download", "done"}
AfterAvg     == pc \in {"box", "loc", "skills", "hist", "trend", "download", "done"}
AfterLoc     == pc \in {"skills", "hist", "trend", "download", "done"}
AfterSkills  == pc \in {"hist", "trend", "download", "done"}
AfterTrend   == pc \in {"download", "done"}

\* the row passes every dimension in which something is selected
Passes(r) ==
    /\ selected_job = {} \/ r.job \in selected_job
    /\ selected_industry = {} \/ r.industry \in selected_industry
    /\ selected_location = {} \/ r.location \in selected_location

RECURSIVE SumOver(_, _)
SumOver(S, f) ==
    IF S = {} THEN 0
    ELSE LET x == CHOOSE x \in S : TRUE IN f[x] + SumOver(S \ {x}, f)

\* the rows of the filtered view, by position, that carry a salary
Salaried(I) == {i \in I : filtered_df[i].salary # <<>>}

SalarySum(I) ==
    SumOver(Salaried(I), [i \in Salaried(I) |-> filtered_df[i].salary[1]])

----------------------------------------------------------------------------
\* C1: the filtered view holds exactly the rows of the loaded table whose
\* value lies in the selection of every dimension with a non-empty selection,
\* in the order of the loaded table, and the loaded table stays as it was read.
C1_FilteredViewIsMatchingRows ==
    /\ Loaded => df = ReadCsv(csv_file)
    /\ Filtered =>
        /\ Range(filtered_df) = {df[i] : i \in {k \in DOMAIN df : Passes(df[k])}}
        /\ \A i, j \in DOMAIN filtered_df :
                i < j => filtered_df[i].idx < filtered_df[j].idx

C1_Witness ==
    /\ pc = "done"
    /\ selected_job # {}
    /\ selected_industry = {}
    /\ selected_location # {}
    /\ Len(df) = 2
    /\ Len(filtered_df) = 1

\* C2: in each dimension, selecting nothing and selecting every value of the
\* column give the same filtered view, the other two selections being equal.
C2_EmptySelectionIsSelectAll ==
    Filtered =>
        /\ selected_job \in {{}, Unique(df, "job")} =>
            /\ filtered_df = FilterView(df, {}, selected_industry, selected_location)
            /\ filtered_df = FilterView(df, Unique(df, "job"), selected_industry,
                                        selected_location)
        /\ selected_industry \in {{}, Unique(df, "industry")} =>
            /\ filtered_df = FilterView(df, selected_job, {}, selected_location)
            /\ filtered_df = FilterView(df, selected_job, Unique(df, "industry"),
                                        selected_location)
        /\ selected_location \in {{}, Unique(df, "location")} =>
            /\ filtered_df = FilterView(df, selected_job, selected_industry, {})
            /\ filtered_df = FilterView(df, selected_job, selected_industry,
                                        Unique(df, "location"))

C2_Witness ==
    /\ pc = "done"
    /\ Len(df) = 2
    /\ selected_location = Unique(df, "location")
    /\ NaN \in selected_location
    /\ Cardinality(selected_location) = 2
    /\ Len(filtered_df) = 2

\* C3: the filtered view has no more rows than the loaded table, and
\* filtering the filtered view by the same selections gives it back.
C3_FilterShrinksAndIsIdempotent ==
    Filtered =>
        /\ Len(filtered_df) <= Len(df)
        /\ FilterView(filtered_df, selected_job, selected_industry,
                      selected_location) = filtered_df

C3_Witness ==
    /\ pc = "done"
    /\ selected_industry # {}
    /\ Len(filtered_df) > 0
    /\ Len(filtered_df) < Len(df)

\* C4: with the file absent the run writes one error and stops with nothing
\* loaded, filtered, aggregated, charted or offered for download; with the
\* file present it loads the table and never writes that error.
C4_MissingFileStopsTheRun ==
    /\ ~file_exists => pc \in {"start", "stopped"}
    /\ pc = "stopped" =>
        /\ ~file_exists
        /\ out = <<"title", "markdown", "error">>
        /\ df = <<>> /\ filtered_df = <<>>
        /\ selected_job = {} /\ selected_industry = {} /\ selected_location = {}
        /\ avg_salary_by_job = <<>> /\ fig2 = <<>> /\ loc_count = <<>>
        /\ top_skills = <<>> /\ fig5 = <<>> /\ df_time = <<>> /\ csv = <<>>
        /\ ~ENABLED Next
    /\ file_exists =>
        /\ "error" \notin Range(out)
        /\ pc # "start" => "success" \in Range(out) /\ df = ReadCsv(csv_file)

C4_Witness ==
    /\ pc = "stopped"
    /\ ~file_exists
    /\ Len(out) = 3

----------------------------------------------------------------------------
(* The skills, read off the Skills cells directly *)

\* the rows of the filtered view, by position, that carry a Skills cell
Skilled == {i \in DOMAIN filtered_df : filtered_df[i].skills # <<>>}

\* <<i, a>>: in row i a comma-separated piece starts at position a
PieceStarts ==
    UNION {{<<i, a>> : a \in {b \in 1..(Len(filtered_df[i].skills) + 1) :
                                b = 1 \/ filtered_df[i].skills[b - 1] = ","}}
           : i \in Skilled}

PieceAt(p) ==
    LET s    == filtered_df[p[1]].skills
        ends == {b \in p[2]..(Len(s) + 1) : b = Len(s) + 1 \/ s[b] = ","}
    IN  SubSeq(s, p[2], (CHOOSE b \in ends : \A c \in ends : b <= c) - 1)

\* t is piece with the whitespace at its two ends removed
IsTrimOf(t, piece) ==
    /\ t = <<>> \/ (t[1] \notin Whitespace /\ t[Len(t)] \notin Whitespace)
    /\ \E a \in 1..(Len(piece) + 1), b \in 0..Len(piece) :
        /\ t = SubSeq(piece, a, b)
        /\ \A k \in 1..(a - 1) : piece[k] \in Whitespace
        /\ \A k \in (b + 1)..Len(piece) : piece[k] \in Whitespace

\* the token of a piece
Trimmed(piece) ==
    CHOOSE t \in {SubSeq(piece, a, b) :
                    a \in 1..(Len(piece) + 1), b \in 0..Len(piece)} :
        IsTrimOf(t, piece)

\* the token of every piece of the filtered view
TokenAt == [p \in PieceStarts |-> Trimmed(PieceAt(p))]

AllTokens == Range(TokenAt)

Occurrences(tok, t) == {p \in DOMAIN tok : tok[p] = t}

\* the first piece, in reading order, that yields token t
FirstSeen(tok, t) ==
    LET occ == Occurrences(tok, t)
    IN  CHOOSE p \in occ :
            \A q \in occ : p[1] < q[1] \/ (p[1] = q[1] /\ p[2] <= q[2])

SeenBefore(tok, t, u) ==
    LET p == FirstSeen(tok, t)
        q == FirstSeen(tok, u)
    IN  p[1] < q[1] \/ (p[1] = q[1] /\ p[2] < q[2])

\* C5: the top skills are at most ten; each is a comma-separated piece of a
\* present Skills cell without the whitespace at its ends; its count is the
\* number of pieces that yield it; the entries run by descending count, equal
\* counts in first-seen order; no token left out has a higher count than one
\* kept.
C5_TopSkills ==
    AfterSkills =>
        LET tok == TokenAt IN
        /\ Len(top_skills) <= TopN
        /\ \A k \in DOMAIN top_skills :
            /\ Occurrences(tok, top_skills[k].Skill) # {}
            /\ top_skills[k].Count = Cardinality(Occurrences(tok, top_skills[k].Skill))
        /\ SumOver(DOMAIN top_skills, [k \in DOMAIN top_skills |-> top_skills[k].Count])
                <= Cardinality(PieceStarts)
        /\ \A i, j \in DOMAIN top_skills :
            i < j =>
                \/ top_skills[i].Count > top_skills[j].Count
                \/ /\ top_skills[i].Count = top_skills[j].Count
                   /\ SeenBefore(tok, top_skills[i].Skill, top_skills[j].Skill)
        /\ \A t \in Range(tok) :
            (\A k \in DOMAIN top_skills : top_skills[k].Skill # t) =>
                /\ Len(top_skills) = TopN
                /\ \A k \in DOMAIN top_skills :
                        Cardinality(Occurrences(tok, t)) <= top_skills[k].Count

C5_Witness ==
    /\ pc = "done"
    /\ Len(top_skills) = TopN
    /\ Cardinality(AllTokens) > TopN
    /\ top_skills[1].Count = 2
    /\ top_skills[2].Count = 1
    /\ \E i \in DOMAIN filtered_df :
            filtered_df[i].skills[1] \in Whitespace

----------------------------------------------------------------------------
(* The months, read off the Date cells directly *)

\* the rows of the filtered view, by position, whose Date is a calendar date
Dated == {i \in DOMAIN filtered_df : ValidDate(filtered_df[i].date)}

MonthOf(i) == filtered_df[i].date[1] * 12 + (filtered_df[i].date[2] - 1)

DatedMonths == {MonthOf(i) : i \in Dated}

InMonth(m) == {i \in Dated : MonthOf(i) = m}

EntryMonth(e) == e.Date[1] * 12 + (e.Date[2] - 1)

\* the entry carries the mean Salary of the rows dated in its month
EntryIsMonthMean(e) ==
    /\ e.Salary.n = Cardinality(Salaried(InMonth(EntryMonth(e))))
    /\ e.Salary.sum = SalarySum(InMonth(EntryMonth(e)))

Chronological ==
    \A i, j \in DOMAIN df_time : i < j => EntryMonth(df_time[i]) < EntryMonth(df_time[j])

\* C6, as claimed: the monthly trend has an entry for exactly the months in
\* which a valid date falls, in strictly chronological order, each with the
\* mean Salary of the rows of its month.
C6_OneEntryPerOccupiedMonth ==
    (AfterTrend /\ has_date) =>
        /\ {EntryMonth(df_time[k]) : k \in DOMAIN df_time} = DatedMonths
        /\ Chronological
        /\ \A k \in DOMAIN df_time : EntryIsMonthMean(df_time[k])

\* C6, amended: the monthly trend has an entry for every month from the
\* first to the last month in which a valid date falls, the months between
\* them in which none falls included with a missing mean, in strictly
\* chronological order, each with the mean Salary of the rows of its month.
C6_OneEntryPerMonthOfTheSpan ==
    (AfterTrend /\ has_date) =>
        /\ {EntryMonth(df_time[k]) : k \in DOMAIN df_time}
                = UNION {lo..hi : lo \in DatedMonths, hi \in DatedMonths}
        /\ Chronological
        /\ \A k \in DOMAIN df_time :
            /\ EntryIsMonthMean(df_time[k])
            /\ df_time[k].Date[3] = DaysInMonth(df_time[k].Date[1], df_time[k].Date[2])
            /\ InMonth(EntryMonth(df_time[k])) = {} => df_time[k].Salary.n = 0

C6_Witness ==
    /\ pc = "done"
    /\ has_date
    /\ Len(df_time) = 3
    /\ df_time[1].Salary.n = 1
    /\ df_time[2].Salary.n = 0
    /\ df_time[3].Salary.n = 1

\* C7: a row whose Date does not parse is left out of the monthly trend and
\* of nothing else: the trend is what it would be without the row, while the
\* filtered view, the other aggregates and the download keep the row.
C7_BadDateLeavesOnlyTheTrend ==
    (AfterTrend /\ has_date) =>
        /\ df_time = MonthlyTrend(SelectSeq(filtered_df, LAMBDA r : ValidDate(r.date)))
        /\ Range(filtered_df) = {df[i] : i \in {k \in DOMAIN df : Passes(df[k])}}
        /\ Len(fig2) = Len(filtered_df)
        /\ Len(fig5) = Len(filtered_df)
        /\ pc = "done" => Len(csv.lines) = Len(filtered_df)
        /\ \A i \in DOMAIN filtered_df \ Dated :
            LET r == filtered_df[i] IN
            /\ fig2[i] = [Industry |-> r.industry, Salary |-> r.salary]
            /\ fig5[i] = r.salary
            /\ pc = "done" => csv.lines[i][6] = r.date
            /\ r.job # NaN =>
                \E k \in DOMAIN avg_salary_by_job :
                    /\ avg_salary_by_job[k].key = r.job
                    /\ avg_salary_by_job[k].mean.n =
                        Cardinality(Salaried({j \in DOMAIN filtered_df :
                                                filtered_df[j].job = r.job}))
            /\ r.location # NaN =>
                \E k \in DOMAIN loc_count :
                    /\ loc_count[k].Location = r.location
                    /\ loc_count[k].Count =
                        Cardinality({j \in DOMAIN filtered_df :
                                        filtered_df[j].location = r.location})
            /\ \A p \in PieceStarts :
                (p[1] = i /\ Cardinality(AllTokens) <= TopN) =>
                    \E k \in DOMAIN top_skills :
                        /\ IsTrimOf(top_skills[k].Skill, PieceAt(p))
                        /\ top_skills[k].Count
                                = Cardinality(Occurrences(TokenAt, top_skills[k].Skill))

C7_Witness ==
    /\ pc = "done"
    /\ has_date
    /\ Len(filtered_df) = 2
    /\ filtered_df[1].date = <<0, 0, 0>>
    /\ filtered_df[2].date = <<2024, 1, 15>>
    /\ Len(df_time) = 1
    /\ df_time[1].Date = <<2024, 1, 31>>

\* C8: the mean salary by job title has one group for each Job Title that
\* occurs in the filtered view, carrying the arithmetic mean of the Salary
\* values of the rows with that Job Title, the groups running by descending
\* mean.  (A missing Job Title cell is no Job Title.)
C8_MeanSalaryByJob ==
    AfterAvg =>
        /\ {avg_salary_by_job[k].key : k \in DOMAIN avg_salary_by_job}
                = {filtered_df[i].job : i \in DOMAIN filtered_df} \ {NaN}
        /\ \A i, j \in DOMAIN avg_salary_by_job :
                i # j => avg_salary_by_job[i].key # avg_salary_by_job[j].key
        /\ \A k \in DOMAIN avg_salary_by_job :
            LET I == {i \in DOMAIN filtered_df :
                        filtered_df[i].job = avg_salary_by_job[k].key}
            IN  /\ avg_salary_by_job[k].mean.n = Cardinality(Salaried(I))
                /\ avg_salary_by_job[k].mean.sum = SalarySum(I)
        /\ \A i, j \in DOMAIN avg_salary_by_job :
            LET a == avg_salary_by_job[i].mean
                b == avg_salary_by_job[j].mean
            IN  (i < j /\ a.n > 0 /\ b.n > 0) => a.sum * b.n >= b.sum * a.n

C8_Witness ==
    /\ pc = "done"
    /\ Len(filtered_df) = 2
    /\ Len(avg_salary_by_job) = 2
    /\ avg_salary_by_job[1].key = "AN"
    /\ avg_salary_by_job[1].mean = [sum |-> 3, n |-> 1]
    /\ avg_salary_by_job[2].mean = [sum |-> 1, n |-> 1]

\* C9: a filtered view without rows is no error: the run goes on to its end,
\* every aggregate comes out empty and the download holds the header alone.
C9_EmptyViewRunsThrough ==
    (Filtered /\ filtered_df = <<>>) =>
        /\ pc # "done" => ENABLED Next
        /\ "error" \notin Range(out)
        /\ avg_salary_by_job = <<>>
        /\ fig2 = <<>>
        /\ loc_count = <<>>
        /\ top_skills = <<>>
        /\ fig5 = <<>>
        /\ df_time = <<>>
        /\ pc = "done" =>
            /\ csv = [header |-> Columns(has_date), lines |-> <<>>]
            /\ out[Len(out)] = "download_button"
            /\ Cardinality({k \in DOMAIN out : out[k] \in {"chart", "pyplot"}})
                    = IF has_date THEN 6 ELSE 5

C9_Witness ==
    /\ pc = "done"
    /\ Len(df) = 2
    /\ filtered_df = <<>>
    /\ selected_job # {}
    /\ selected_location # {}

\* C10, as claimed: the job count by location has one entry for each
\* Location of the filtered view, a missing Location included, carrying the
\* number of rows with that Location, and the counts add up to the number of
\* rows of the filtered view.
C10_LocationCountCoversEveryRow ==
    AfterLoc =>
        /\ {loc_count[k].Location : k \in DOMAIN loc_count}
                = {filtered_df[i].location : i \in DOMAIN filtered_df}
        /\ \A i, j \in DOMAIN loc_count :
                i # j => loc_count[i].Location # loc_count[j].Location
        /\ \A k \in DOMAIN loc_count :
                loc_count[k].Count =
                    Cardinality({i \in DOMAIN filtered_df :
                                    filtered_df[i].location = loc_count[k].Location})
        /\ SumOver(DOMAIN loc_count, [k \in DOMAIN loc_count |-> loc_count[k].Count])
                = Len(filtered_df)

====
